---- MODULE Spec2Model ----
(***************************************************************************)
(* EloWard rank-badge OBS plugin: the three module variants kept in the    *)
(* repository, as one state machine.                                       *)
(*                                                                         *)
(*   "E"  eloward-rank-badges/eloward-rank-badges.c                        *)
(*   "P"  eloward-obs/src/plugin-main.c                                    *)
(*   "I"  eloward-rank-badges/rank-badge-injector.c                        *)
(*                                                                         *)
(* Two threads run the code: "host" (the OBS thread that calls the module  *)
(* entry points, the source callbacks and the frontend event handler) and  *)
(* "poll" (poll_thread_func).  Every blocking point of the code (an HTTP   *)
(* request in flight, the sleep, pthread_join, the host execute call) is a *)
(* program counter value, so the two threads interleave at those points.   *)
(***************************************************************************)
EXTENDS Integers, Sequences, FiniteSets, TLC

(* ------------------------------ bounds -------------------------------- *)

\* Largest value the db_reads / successful_reads counters take in the model.
MaxCount == 1

\* Largest number of delivery chunks of one HTTP response body.
MaxChunks == 2

\* Largest number of characters of a script text the injector is run on.
MaxText == 3

(* --------------------------- program constants ------------------------ *)

SUBSCRIPTION_API_URL == "https://eloward-subscription-api.unleashai-inquiries.workers.dev"

RANK_API_URL == "https://eloward-viewers-api.unleashai-inquiries.workers.dev/api/ranks/lol"

\* sizeof(current_streamer), sizeof(streamer_name)
NameSize == 128

\* sizeof(response_buffer) of the two metrics helpers.
MetricsBufferSize == 512

\* sizeof(response_buffer) of check_streamer_subscription.
VerifyBufferSize == 2048

(* ------------------------------ values -------------------------------- *)

Variants == {"E", "P", "I"}

Threads == {"host", "poll"}

\* Streamer names: the empty string and two different non-empty names.
Names == {"", "a", "b"}

\* A name of NameSize characters, and its first NameSize - 1 characters.
LongName == "long"

CutName == "long-cut"

\* The names a host source can hold.
AllNames == Names \cup {LongName}

\* strlen of a name of the model.
StrLen(n) ==
    IF n = "" THEN 0
    ELSE IF n = LongName THEN NameSize
    ELSE IF n = CutName THEN NameSize - 1
    ELSE 1

\* strncpy(dst, src, size - 1); dst[size - 1] = 0: what dst holds.
strncpy(src, size) == IF StrLen(src) >= size THEN CutName ELSE src

(* ----------------------- HTTP responses and parsing ------------------- *)

\* A chunk of a response body is one piece of text:
\*   "T"  a JSON object whose asked-for field (subscribed / success) is true
\*   "F"  a JSON object whose asked-for field is false
\*   "S"  a JSON object whose asked-for field is not a boolean
\*   "N"  a JSON object without the field
\*   "x"  text that is not JSON
Pieces == {"T", "F", "S", "N", "x"}

JsonObjects == {"T", "F", "S", "N"}

RECURSIVE SeqsUpTo(_, _)
SeqsUpTo(S, n) ==
    IF n = 0 THEN {<<>>}
    ELSE LET shorter == SeqsUpTo(S, n - 1)
         IN  shorter \cup {Append(s, x) : s \in {q \in shorter : Len(q) = n - 1}, x \in S}

\* What the server and the transport do with one request: the CURLcode of
\* curl_easy_perform and the chunks handed to the write callback, in order.
Responses == [res : {"ok", "fail"}, chunks : SeqsUpTo(Pieces, MaxChunks)]

\* The whole body the server sent.
BodyText(r) == r.chunks

\* write_callback: strncpy(mem, contents, realsize); mem[realsize] = 0.
\* Every chunk is copied to the START of the buffer.
write_callback(mem, contents) == <<contents>>

\* The response buffer after curl_easy_perform: zeroed, then one
\* write_callback per chunk.
RECURSIVE Deliver(_, _)
Deliver(mem, chunks) ==
    IF chunks = <<>> THEN mem
    ELSE Deliver(write_callback(mem, Head(chunks)), Tail(chunks))

response_buffer(r) == Deliver(<<>>, r.chunks)

\* json_loads(text, 0, &error): the root object, or "null" when the text
\* is not exactly one JSON document.
json_loads(text) ==
    IF Len(text) = 1 /\ text[1] \in JsonObjects THEN text[1] ELSE "null"

\* The tail of the three HTTP helpers, from `res == CURLE_OK` to the local
\* result: json_is_boolean(field) ? json_boolean_value(field) : false.
ParseBool(r) ==
    IF r.res = "ok"
    THEN LET root == json_loads(response_buffer(r))
         IN  IF root = "null" THEN FALSE
             ELSE IF root \in {"T", "F"} THEN root = "T"
             ELSE FALSE
    ELSE FALSE

\* if (success) plugin_data->db_reads++;
Bump(counter, success) == IF success THEN counter + 1 ELSE counter

(* ------------------------- streamer resolver -------------------------- *)

\* What get_current_streamer of plugin-main.c reads from the host:
\* the streaming output (or none) and its "username" setting, the
\* identity.username string of twitch_ingests.json ("none": no file, no
\* JSON, or no such string) and the TWITCH_USERNAME environment variable.
HostCfgP == [output : BOOLEAN, username : Names, cfg : {"none"} \cup Names, env : Names]

\* What get_current_streamer of eloward-rank-badges.c reads from the host,
\* besides the global config value the module itself writes.
HostCfgE == [output : BOOLEAN, service : Names, username : Names, profile : Names]

Resolved(n)  == [ok |-> TRUE, name |-> n]

NotResolved == [ok |-> FALSE, name |-> ""]

get_current_streamer_P(h, size) ==
    IF h.output /\ StrLen(h.username) > 0 THEN Resolved(strncpy(h.username, size))
    ELSE IF h.cfg # "none" THEN Resolved(strncpy(h.cfg, size))
    ELSE IF StrLen(h.env) > 0 THEN Resolved(strncpy(h.env, size))
    ELSE NotResolved

Fits(s, size) == StrLen(s) > 0 /\ StrLen(s) < size

get_current_streamer_E(h, global, size) ==
    IF h.output /\ Fits(h.service, size) THEN Resolved(strncpy(h.service, size))
    ELSE IF h.output /\ Fits(h.username, size) THEN Resolved(strncpy(h.username, size))
    ELSE IF Fits(h.profile, size) THEN Resolved(strncpy(h.profile, size))
    ELSE IF Fits(global, size) THEN Resolved(strncpy(global, size))
    ELSE NotResolved

\* The host configurations the module runs in: no source of the name is
\* set, or exactly one is.
HostStatesP ==
    {h \in HostCfgP :
        /\ h.output <=> h.username # ""
        /\ (h.output /\ h.cfg = "none" /\ h.env = "")
           \/ (~h.output /\ (h.cfg = "none" \/ h.env = ""))}

HostStatesE ==
    {h \in HostCfgE :
        /\ h.output <=> (h.service # "" \/ h.username # "")
        /\ \/ h.service = "" /\ h.username = ""
           \/ h.service = "" /\ h.profile = ""
           \/ h.username = "" /\ h.profile = ""}

NoHost == [output |-> FALSE, username |-> "", cfg |-> "none", env |-> ""]

(* ------------------------------ host scene ---------------------------- *)

\* C strings of source names and URLs are sequences of characters.
RECURSIVE HasPrefix(_, _)
HasPrefix(hay, needle) ==
    IF needle = <<>> THEN TRUE
    ELSE IF hay = <<>> THEN FALSE
    ELSE Head(hay) = Head(needle) /\ HasPrefix(Tail(hay), Tail(needle))

\* strstr(hay, needle) != NULL
RECURSIVE strstr(_, _)
strstr(hay, needle) ==
    IF HasPrefix(hay, needle) THEN TRUE
    ELSE IF hay = <<>> THEN FALSE
    ELSE strstr(Tail(hay), needle)

s_chat == <<"c", "h", "a", "t">>

s_Chat == <<"C", "h", "a", "t">>

s_twitch == <<"t", "w", "i", "t", "c", "h">>

s_Twitch == <<"T", "w", "i", "t", "c", "h">>

s_twitch_tv == <<"t", "w", "i", "t", "c", "h", ".", "t", "v">>

s_twitch_chat == <<"t", "w", "i", "t", "c", "h", "-", "c", "h", "a", "t">>

s_streamelements == <<"s", "t", "r", "e", "a", "m", "e", "l", "e", "m", "e", "n", "t", "s", ".", "c", "o", "m", "/", "o", "v", "e", "r", "l", "a", "y", "/", "c", "h", "a", "t">>

\* The sources the host holds, in enumeration order: type id, name, "url"
\* setting, and whether the source is an active source of the current scene.
Sources ==
    << [id |-> "browser_source", name |-> <<"C", "h", "a", "t">>,
        url |-> <<"h", "t", "t", "p", "s", ":", "/", "/", "t", "w", "i", "t", "c", "h", ".", "t", "v", "/", "p", "o", "p", "o", "u", "t">>, active |-> TRUE],
       [id |-> "browser_source", name |-> <<"c", "a", "m">>,
        url |-> <<"h", "t", "t", "p", "s", ":", "/", "/", "c", "a", "m">>, active |-> TRUE],
       [id |-> "image_source", name |-> <<"c", "h", "a", "t">>,
        url |-> <<>>, active |-> TRUE],
       [id |-> "browser_source", name |-> <<"c", "h", "a", "t">>,
        url |-> <<"h", "t", "t", "p", "s", ":", "/", "/", "t", "w", "i", "t", "c", "h", ".", "t", "v", "/", "p", "o", "p", "o", "u", "t">>, active |-> FALSE],
       [id |-> "browser_source", name |-> <<"o", "v", "e", "r", "l", "a", "y">>,
        url |-> <<"h", "t", "t", "p", "s", ":", "/", "/", "t", "w", "i", "t", "c", "h", ".", "t", "v", "/", "p", "o", "p", "o", "u", "t">>, active |-> TRUE],
       [id |-> "browser_source", name |-> <<"c", "h", "a", "t">>,
        url |-> <<"f", "i", "l", "e", ":", "/", "/", "b", "o", "x">>, active |-> TRUE] >>

\* eloward-rank-badges.c: the lambda given to obs_source_enum_active_sources.
MatchE(src) ==
    /\ src.active
    /\ src.id = "browser_source"
    /\ \/ strstr(src.name, s_chat) \/ strstr(src.name, s_Chat)
       \/ strstr(src.name, s_twitch) \/ strstr(src.name, s_Twitch)

\* rank-badge-injector.c: the lambda given to obs_source_enum_active_sources.
MatchI(src) ==
    /\ src.active
    /\ src.id = "browser_source"
    /\ (strstr(src.name, s_chat) \/ strstr(src.name, s_Chat))

\* plugin-main.c: obs_enum_sources visits every source; the type and URL
\* tests of inject_js_to_browser_source.
MatchP(src) ==
    /\ src.id = "browser_source"
    /\ \/ strstr(src.url, s_twitch_tv) \/ strstr(src.url, s_twitch_chat)
       \/ strstr(src.url, s_streamelements)

(* ------------------------------- scripts ------------------------------ *)

\* Characters of the bundled script that the injectors treat specially, and
\* one ordinary character.
BACKTICK == "<backtick>"

BACKSLASH == "<backslash>"

NEWLINE == "<newline>"

\* The value of a js_code pointer that is NULL: no character string.
NoCode == <<"<NULL>">>

\* The bundled JavaScript file, as characters.
JsFile == <<"j", BACKTICK, BACKSLASH, NEWLINE>>

\* rank-badge-injector.c: the escaping loop over js_code.
RECURSIVE Escape(_)
Escape(code) ==
    IF code = <<>> THEN <<>>
    ELSE LET c == Head(code)
         IN  (IF c = BACKTICK THEN <<BACKSLASH, BACKTICK>>
              ELSE IF c = BACKSLASH THEN <<BACKSLASH, BACKSLASH>>
              ELSE IF c = NEWLINE THEN <<BACKSLASH, "n">>
              ELSE <<c>>) \o Escape(Tail(code))

\* A script string built by inject_js_to_browser_source:
\*   cfg           it defines window.ELOWARD_CONFIG
\*   streamerName, isSubscribed, rank, subscription   the values written there
\*   body          the characters standing for the bundled script
\*   wrapped       the body sits inside a template literal
\*   attached      the string is handed to the host call
NoScript ==
    [cfg |-> FALSE, streamerName |-> "", isSubscribed |-> FALSE, rank |-> "",
     subscription |-> "", body |-> <<>>, wrapped |-> FALSE, attached |-> FALSE]

\* eloward-rank-badges.c: snprintf(inject_script, ...) and calldata_set_string.
FormatE(name, subscribed, code) ==
    [cfg |-> TRUE, streamerName |-> name, isSubscribed |-> subscribed,
     rank |-> RANK_API_URL, subscription |-> SUBSCRIPTION_API_URL,
     body |-> code, wrapped |-> TRUE, attached |-> TRUE]

\* plugin-main.c: config_json, then "%s\n%s\n%s" and obs_data_set_string.
FormatP(name, subscribed, code) ==
    [cfg |-> TRUE, streamerName |-> name, isSubscribed |-> TRUE,
     rank |-> RANK_API_URL, subscription |-> SUBSCRIPTION_API_URL,
     body |-> code, wrapped |-> FALSE, attached |-> TRUE]

\* rank-badge-injector.c: the dstr holds only the escaped body, and the
\* calldata given to proc_handler_call stays empty.
FormatI(name, subscribed, code) ==
    [cfg |-> FALSE, streamerName |-> "", isSubscribed |-> FALSE, rank |-> "",
     subscription |-> "", body |-> Escape(code), wrapped |-> TRUE,
     attached |-> FALSE]

(* ------------------------------- state -------------------------------- *)

VARIABLES
    variant,             \* which of the three source files is the module
    plugin_data,         \* the global pointer: "NULL" or "ptr"
    freed,               \* the struct behind the pointer has been bfree'd
    initialized,         \* plugin_data->initialized
    thread_running,      \* plugin_data->thread_running
    stop_event,          \* "none", "unset", "set" (signalled), "destroyed"
    js_code,             \* NoCode or the characters of the loaded script
    current_streamer,    \* plugin_data->current_streamer
    streamer_subscribed, \* plugin_data->streamer_subscribed
    db_reads,            \* plugin_data->db_reads
    successful_reads,    \* plugin_data->successful_reads
    global_name,         \* host global config value "ElowardStreamerName"
    pc,                  \* where each thread stands
    loc,                 \* each thread's locals
    curOutcome,          \* history: how the latest completed check made
                         \* for the name now cached ended, and in which
                         \* thread (NoOutcome if none)
    quiet,               \* environment: the host makes no more callbacks,
                         \* its streamer identity stays as it is and the
                         \* verify service answers {"subscribed": true}
    io,                  \* one call of an HTTP helper on one response:
                         \* what went in and what came out
    identity             \* environment: what the host's settings, files and
                         \* environment hold now, as get_current_streamer
                         \* reads them

vars ==
    <<variant, plugin_data, freed, initialized, thread_running, stop_event,
      js_code, current_streamer, streamer_subscribed, db_reads,
      successful_reads, global_name, pc, loc, curOutcome, quiet, io, identity>>

\* No request in flight.
NoReq == [ep |-> "none", name |-> ""]

Request(ep, n) == [ep |-> ep, name |-> n]

\* A thread's locals:
\*   name    the local streamer_name[128] copy handed to the HTTP client
\*   ref     the client's argument points into plugin_data->current_streamer
\*   req     the HTTP request curl_easy_perform is blocked in
\*   ret     where the thread goes on after the call in progress
\*   origin  where the name being checked came from
\*   same    that resolution gave the name that was already cached
\*   was     was_subscribed of plugin-main.c's poll loop
\*   idx     the source an injection pass stands at
\*   cnt     the value of db_reads loaded by `plugin_data->db_reads++`
\*   script  the script string built for that source
LocInit ==
    [name |-> "", ref |-> FALSE, req |-> NoReq, ret |-> "none",
     origin |-> "none", same |-> FALSE, was |-> FALSE, idx |-> 0,
     script |-> NoScript, cnt |-> 0]

\* No check completed for the cached name.
NoOutcome == [val |-> "none", by |-> "none"]

\* How a verify request ended: the service said subscribed ("true"), it
\* said not subscribed or gave no boolean ("false"), or the transport or
\* the parse failed ("error").
Outcome(r) ==
    IF ParseBool(r) THEN "true"
    ELSE IF r.res = "fail" \/ json_loads(response_buffer(r)) = "null" THEN "error"
    ELSE "false"

\* No helper call recorded.  For a transfer in progress: size is
\* sizeof(response_buffer), buf what the buffer holds from its start, sent
\* the number of chunks delivered, and span the number of bytes the last
\* write_callback wrote from mem[0] on.
NoCall == [fn |-> "none", resp |-> [res |-> "ok", chunks |-> <<>>],
           counter |-> 0, ret |-> FALSE, after |-> 0, name |-> "",
           size |-> 0, buf |-> <<>>, sent |-> 0, span |-> 0]

\* The host configurations of the running variant.
HostStates ==
    IF variant = "E" THEN HostStatesE
    ELSE IF variant = "P" THEN HostStatesP
    ELSE {NoHost}

Init ==
    /\ variant \in Variants
    /\ plugin_data = "NULL"
    /\ freed = FALSE
    /\ initialized = FALSE
    /\ thread_running = FALSE
    /\ stop_event = "none"
    /\ js_code = NoCode
    /\ current_streamer = ""
    /\ streamer_subscribed = FALSE
    /\ db_reads = 0
    /\ successful_reads = 0
    /\ global_name \in (IF variant = "E" THEN Names ELSE {""})
    /\ pc = [t \in Threads |-> IF t = "host" THEN "unloaded" ELSE "none"]
    /\ loc = [t \in Threads |-> LocInit]
    /\ curOutcome = NoOutcome
    /\ quiet = FALSE
    /\ io = NoCall
    /\ identity \in HostStates

\* The name the HTTP client reads through its streamer_name argument.
ArgName(L) == IF L.ref THEN current_streamer ELSE L.name

(* ------------------------- subscription client ------------------------ *)

\* A caller stores newName in current_streamer (or leaves it: newName is the
\* old value) and calls check_streamer_subscription with the argument that
\* L describes.  The call returns false at once for an empty name; else
\* increment_db_read_counter posts metrics/db_read and blocks.
CallCheck(t, newName, L) ==
    LET nm == IF L.ref THEN newName ELSE L.name
        oc == IF newName = current_streamer THEN curOutcome ELSE NoOutcome
    IN  /\ current_streamer' = newName
        /\ curOutcome' = oc
        /\ IF StrLen(nm) = 0
           THEN /\ streamer_subscribed' = FALSE
                /\ pc' = [pc EXCEPT ![t] = L.ret]
                /\ loc' = [loc EXCEPT ![t] = [LocInit EXCEPT !.was = L.was]]
           ELSE /\ streamer_subscribed' = streamer_subscribed
                /\ pc' = [pc EXCEPT ![t] = "chk_db"]
                /\ loc' = [loc EXCEPT ![t] = [L EXCEPT !.req = Request("db_read", nm)]]

\* The ways a helper can read a response, over every response: the boolean
\* it extracts and how the request ended.
ResponseKinds ==
    {[subscribed |-> ParseBool(r), val |-> Outcome(r)] : r \in Responses}

\* What the metrics endpoint's response may come to now.
DbResponses == {k \in ResponseKinds : k.subscribed => db_reads < MaxCount}

\* What the verify endpoint's response may come to now.
VerifyResponses ==
    IF quiet THEN {k \in ResponseKinds : k.subscribed} ELSE ResponseKinds

\* increment_db_read_counter from the return of curl_easy_perform.  With
\* success it loads db_reads for `plugin_data->db_reads++`: the counter is a
\* plain unsigned int that both threads update with no lock, so the load
\* and the store are separate steps.  Without success it returns, and
\* check_streamer_subscription goes on to its own curl_easy_perform: the
\* verify request is formatted from the argument as it reads now.
DbResp(t) ==
    /\ pc[t] = "chk_db"
    /\ \E k \in DbResponses :
          IF k.subscribed
          THEN /\ pc' = [pc EXCEPT ![t] = "chk_inc"]
               /\ loc' = [loc EXCEPT ![t].cnt = db_reads]
          ELSE /\ pc' = [pc EXCEPT ![t] = "chk_ver"]
               /\ loc' = [loc EXCEPT ![t].req = Request("verify", ArgName(loc[t]))]
    /\ UNCHANGED <<variant, plugin_data, freed, initialized, thread_running,
                   stop_event, js_code, current_streamer, streamer_subscribed,
                   db_reads, successful_reads, global_name, curOutcome, quiet,
                   io, identity>>

\* The store of `plugin_data->db_reads++`, the return of
\* increment_db_read_counter, and check_streamer_subscription up to its own
\* curl_easy_perform.
DbStore(t) ==
    /\ pc[t] = "chk_inc"
    /\ db_reads' = Bump(loc[t].cnt, TRUE)
    /\ pc' = [pc EXCEPT ![t] = "chk_ver"]
    /\ loc' = [loc EXCEPT ![t].req = Request("verify", ArgName(loc[t])),
                          ![t].cnt = 0]
    /\ UNCHANGED <<variant, plugin_data, freed, initialized, thread_running,
                   stop_event, js_code, current_streamer, streamer_subscribed,
                   successful_reads, global_name, curOutcome, quiet, io, identity>>

\* check_streamer_subscription from the return of curl_easy_perform to its
\* return, and the caller's `streamer_subscribed = <returned value>`.
VerifyResp(t) ==
    /\ pc[t] = "chk_ver"
    /\ \E o \in VerifyResponses :
          LET n == loc[t].req.name
          IN  /\ streamer_subscribed' = o.subscribed
              /\ curOutcome' = IF n = current_streamer /\ n # ""
                               THEN [val |-> o.val, by |-> t]
                               ELSE curOutcome
    /\ pc' = [pc EXCEPT ![t] = loc[t].ret]
    /\ loc' = [loc EXCEPT ![t] = [LocInit EXCEPT !.was = loc[t].was]]
    /\ UNCHANGED <<variant, plugin_data, freed, initialized, thread_running,
                   stop_event, js_code, current_streamer, db_reads,
                   successful_reads, global_name, quiet, io, identity>>

(* ------------------------------ injector ------------------------------ *)

Match(src) ==
    IF variant = "E" THEN MatchE(src)
    ELSE IF variant = "P" THEN MatchP(src)
    ELSE MatchI(src)

Format(name, subscribed, code) ==
    IF variant = "E" THEN FormatE(name, subscribed, code)
    ELSE IF variant = "P" THEN FormatP(name, subscribed, code)
    ELSE FormatI(name, subscribed, code)

\* The guard at the head of inject_js_to_browser_source.
SourceGuard ==
    IF variant = "P" THEN js_code # NoCode /\ streamer_subscribed
    ELSE js_code # NoCode

\* The sources at or after position i that the pass injects into.
Targets(i) == {j \in i..Len(Sources) : Match(Sources[j]) /\ SourceGuard}

Min(S) == CHOOSE x \in S : \A y \in S : x <= y

\* Entry of inject_into_chat_sources.  eloward-rank-badges.c and
\* rank-badge-injector.c load the script file if it is not loaded yet
\* (fileOk: the file can be read) and give up if it cannot be;
\* eloward-rank-badges.c then gives up unless subscribed.
EnterInject(t, ret, fileOk) ==
    LET code == IF variant \in {"E", "I"} /\ js_code = NoCode /\ fileOk
                THEN JsFile ELSE js_code
        go == IF variant = "E" THEN code # NoCode /\ streamer_subscribed
              ELSE IF variant = "I" THEN code # NoCode
              ELSE TRUE
    IN  /\ js_code' = code
        /\ pc' = [pc EXCEPT ![t] = IF go THEN "inj_scan" ELSE ret]
        /\ loc' = [loc EXCEPT ![t] =
                     IF go THEN [LocInit EXCEPT !.ret = ret, !.idx = 1, !.was = loc[t].was]
                     ELSE [LocInit EXCEPT !.was = loc[t].was]]

\* The enumeration up to the next source injected into, and for that source
\* inject_js_to_browser_source up to the host call: the script is built from
\* the shared state as it is now.
InjScan(t) ==
    /\ pc[t] = "inj_scan"
    /\ IF Targets(loc[t].idx) = {}
       THEN /\ pc' = [pc EXCEPT ![t] = loc[t].ret]
            /\ loc' = [loc EXCEPT ![t] = [LocInit EXCEPT !.was = loc[t].was]]
       ELSE /\ pc' = [pc EXCEPT ![t] = "inj_exec"]
            /\ loc' = [loc EXCEPT ![t].idx = Min(Targets(loc[t].idx)),
                                  ![t].script = Format(current_streamer,
                                                       streamer_subscribed, js_code)]
    /\ UNCHANGED <<variant, plugin_data, freed, initialized, thread_running,
                   stop_event, js_code, current_streamer, streamer_subscribed,
                   db_reads, successful_reads, global_name, curOutcome, quiet, io, identity>>

\* The host call (proc_handler_call / obs_source_call_proc) on the source
\* the pass stands at, and the step to the next source.
InjExec(t) ==
    /\ pc[t] = "inj_exec"
    /\ pc' = [pc EXCEPT ![t] = "inj_scan"]
    /\ loc' = [loc EXCEPT ![t].idx = loc[t].idx + 1, ![t].script = NoScript]
    /\ UNCHANGED <<variant, plugin_data, freed, initialized, thread_running,
                   stop_event, js_code, current_streamer, streamer_subscribed,
                   db_reads, successful_reads, global_name, curOutcome, quiet, io, identity>>

(* ----------------------------- poll thread ---------------------------- *)

\* What a call of get_current_streamer returns now.
ResolveResults ==
    IF variant = "E"
    THEN {get_current_streamer_E(identity, global_name, NameSize)}
    ELSE {get_current_streamer_P(identity, NameSize)}

\* Mutant of StopObserved: the loop tests an event nobody signals.
StopNeverObserved == FALSE

\* os_event_try(stop_event) == 0, os_event_timedwait(stop_event, ms) == 0:
\* the manual-reset event has been signalled.
StopObserved == stop_event = "set"

\* eloward-rank-badges.c: while (plugin && plugin->thread_running)
PollLoopE ==
    /\ variant = "E"
    /\ pc["poll"] = "loop"
    /\ pc' = [pc EXCEPT !["poll"] = IF thread_running THEN "e_body" ELSE "exited"]
    /\ UNCHANGED <<variant, plugin_data, freed, initialized, thread_running,
                   stop_event, js_code, current_streamer, streamer_subscribed,
                   db_reads, successful_reads, global_name, loc, curOutcome, quiet, io, identity>>

\* Mutant of PollBodyE: the result of get_current_streamer is not tested.
PollBodyE_Untested ==
    /\ variant = "E"
    /\ pc["poll"] = "e_body"
    /\ \E r \in ResolveResults :
          IF r.name # current_streamer
          THEN CallCheck("poll", r.name,
                         [LocInit EXCEPT !.name = r.name, !.ret = "e_after",
                                         !.origin = "resolve"])
          ELSE /\ pc' = [pc EXCEPT !["poll"] = "e_after"]
               /\ UNCHANGED <<current_streamer, streamer_subscribed, loc, curOutcome>>
    /\ UNCHANGED <<variant, plugin_data, freed, initialized, thread_running,
                   stop_event, js_code, db_reads, successful_reads, global_name,
                   quiet, io, identity>>

\* eloward-rank-badges.c: resolve, and on a changed name store it and start
\* the subscription check with the local copy.
PollBodyE ==
    /\ variant = "E"
    /\ pc["poll"] = "e_body"
    /\ \E r \in ResolveResults :
          IF r.ok /\ r.name # current_streamer
          THEN CallCheck("poll", r.name,
                         [LocInit EXCEPT !.name = r.name, !.ret = "e_after",
                                         !.origin = "resolve"])
          ELSE /\ pc' = [pc EXCEPT !["poll"] = IF r.ok THEN "e_after" ELSE "wait"]
               /\ UNCHANGED <<current_streamer, streamer_subscribed, loc, curOutcome>>
    /\ UNCHANGED <<variant, plugin_data, freed, initialized, thread_running,
                   stop_event, js_code, db_reads, successful_reads, global_name,
                   quiet, io, identity>>

\* eloward-rank-badges.c: if (plugin->streamer_subscribed) inject_into_chat_sources();
PollAfterE ==
    /\ variant = "E"
    /\ pc["poll"] = "e_after"
    /\ IF streamer_subscribed
       THEN \E fileOk \in BOOLEAN : EnterInject("poll", "wait", fileOk)
       ELSE /\ pc' = [pc EXCEPT !["poll"] = "wait"]
            /\ UNCHANGED <<js_code, loc>>
    /\ UNCHANGED <<variant, plugin_data, freed, initialized, thread_running,
                   stop_event, current_streamer, streamer_subscribed, db_reads,
                   successful_reads, global_name, curOutcome, quiet, io, identity>>

\* eloward-rank-badges.c: os_event_timedwait returns 0 once the event is
\* signalled (break), or times out after POLL_INTERVAL_MS.
PollWaitE ==
    /\ variant = "E"
    /\ pc["poll"] = "wait"
    /\ pc' = [pc EXCEPT !["poll"] = IF StopObserved THEN "exited" ELSE "loop"]
    /\ UNCHANGED <<variant, plugin_data, freed, initialized, thread_running,
                   stop_event, js_code, current_streamer, streamer_subscribed,
                   db_reads, successful_reads, global_name, loc, curOutcome, quiet, io, identity>>

\* plugin-main.c: while (os_event_try(plugin_data->stop_event) == EAGAIN)
PollLoopP ==
    /\ variant = "P"
    /\ pc["poll"] = "loop"
    /\ pc' = [pc EXCEPT !["poll"] = IF StopObserved THEN "exited" ELSE "p_body"]
    /\ UNCHANGED <<variant, plugin_data, freed, initialized, thread_running,
                   stop_event, js_code, current_streamer, streamer_subscribed,
                   db_reads, successful_reads, global_name, loc, curOutcome, quiet, io, identity>>

\* plugin-main.c: if (strlen(current_streamer) > 0), the check must be made.
PollNeedsCheckP(name) == StrLen(name) > 0

\* plugin-main.c: the check of the cached name, handed over by pointer.
PollBodyP ==
    /\ variant = "P"
    /\ pc["poll"] = "p_body"
    /\ IF PollNeedsCheckP(current_streamer)
       THEN CallCheck("poll", current_streamer,
                      [LocInit EXCEPT !.ref = TRUE, !.ret = "p_after",
                                      !.origin = "cached",
                                      !.was = streamer_subscribed])
       ELSE /\ pc' = [pc EXCEPT !["poll"] = "sleep"]
            /\ UNCHANGED <<current_streamer, streamer_subscribed, loc, curOutcome>>
    /\ UNCHANGED <<variant, plugin_data, freed, initialized, thread_running,
                   stop_event, js_code, db_reads, successful_reads, global_name,
                   quiet, io, identity>>

\* plugin-main.c: re-inject if the status changed to subscribed.
PollAfterP ==
    /\ variant = "P"
    /\ pc["poll"] = "p_after"
    /\ IF loc["poll"].was # streamer_subscribed /\ streamer_subscribed
       THEN EnterInject("poll", "sleep", TRUE)
       ELSE /\ pc' = [pc EXCEPT !["poll"] = "sleep"]
            /\ loc' = [loc EXCEPT !["poll"] = LocInit]
            /\ UNCHANGED js_code
    /\ UNCHANGED <<variant, plugin_data, freed, initialized, thread_running,
                   stop_event, current_streamer, streamer_subscribed, db_reads,
                   successful_reads, global_name, curOutcome, quiet, io, identity>>

\* plugin-main.c: os_sleep_ms(POLL_INTERVAL_MS) returns after the interval.
PollSleepP ==
    /\ variant = "P"
    /\ pc["poll"] = "sleep"
    /\ pc' = [pc EXCEPT !["poll"] = "loop"]
    /\ loc' = [loc EXCEPT !["poll"] = LocInit]
    /\ UNCHANGED <<variant, plugin_data, freed, initialized, thread_running,
                   stop_event, js_code, current_streamer, streamer_subscribed,
                   db_reads, successful_reads, global_name, curOutcome, quiet, io, identity>>

(* ------------------------- host thread: load -------------------------- *)

\* eloward-rank-badges.c obs_module_load up to the initial subscription
\* check: allocate, create the stop event, try to load the script (fileOk),
\* resolve the streamer and start the check.
LoadE ==
    /\ variant = "E"
    /\ pc["host"] = "unloaded"
    /\ plugin_data' = "ptr"
    /\ stop_event' = "unset"
    /\ \E fileOk \in BOOLEAN : js_code' = IF fileOk THEN JsFile ELSE NoCode
    /\ \E r \in ResolveResults :
          IF r.ok
          THEN CallCheck("host", r.name,
                         [LocInit EXCEPT !.name = r.name, !.ret = "load_thread",
                                         !.origin = "load"])
          ELSE /\ pc' = [pc EXCEPT !["host"] = "load_thread"]
               /\ UNCHANGED <<current_streamer, streamer_subscribed, loc, curOutcome>>
    /\ UNCHANGED <<variant, freed, initialized, thread_running, db_reads,
                   successful_reads, global_name, quiet, io, identity>>

\* eloward-rank-badges.c obs_module_load, the rest: start the poll thread.
LoadThreadE ==
    /\ variant = "E"
    /\ pc["host"] = "load_thread"
    /\ thread_running' = TRUE
    /\ initialized' = TRUE
    /\ pc' = [pc EXCEPT !["host"] = "idle", !["poll"] = "loop"]
    /\ UNCHANGED <<variant, plugin_data, freed, stop_event, js_code,
                   current_streamer, streamer_subscribed, db_reads,
                   successful_reads, global_name, loc, curOutcome, quiet, io, identity>>

\* plugin-main.c obs_module_load, given which of its steps succeed:
\* load_js_file (fileOk), os_event_init (eventOk), pthread_create (threadOk).
\* A step that fails calls rank_badges_destroy(NULL), which finds
\* thread_running false, frees the state and nulls the pointer; the load
\* returns false.
LoadStepsP(fileOk, eventOk, threadOk) ==
    /\ variant = "P"
    /\ pc["host"] = "unloaded"
    /\ IF fileOk /\ eventOk /\ threadOk
       THEN /\ plugin_data' = "ptr"
            /\ js_code' = JsFile
            /\ stop_event' = "unset"
            /\ thread_running' = TRUE
            /\ initialized' = TRUE
            /\ freed' = FALSE
            /\ pc' = [pc EXCEPT !["host"] = "idle", !["poll"] = "loop"]
       ELSE /\ plugin_data' = "NULL"
            /\ js_code' = NoCode
            /\ stop_event' = IF fileOk /\ eventOk THEN "destroyed" ELSE "none"
            /\ thread_running' = FALSE
            /\ initialized' = FALSE
            /\ freed' = TRUE
            /\ pc' = [pc EXCEPT !["host"] = "idle"]
    /\ UNCHANGED <<variant, current_streamer, streamer_subscribed, db_reads,
                   successful_reads, global_name, loc, curOutcome, quiet, io,
                   identity>>

\* plugin-main.c obs_module_load.
LoadP == \E fileOk, eventOk, threadOk \in BOOLEAN : LoadStepsP(fileOk, eventOk, threadOk)

\* rank-badge-injector.c injector_init.
LoadI ==
    /\ variant = "I"
    /\ pc["host"] = "unloaded"
    /\ \E fileOk \in BOOLEAN : js_code' = IF fileOk THEN JsFile ELSE NoCode
    /\ pc' = [pc EXCEPT !["host"] = "idle"]
    /\ UNCHANGED <<variant, plugin_data, freed, initialized, thread_running,
                   stop_event, current_streamer, streamer_subscribed, db_reads,
                   successful_reads, global_name, loc, curOutcome, quiet, io, identity>>

(* ----------------------- host thread: callbacks ----------------------- *)

\* The host thread is between two callbacks and the host still makes some.
HostIdle == pc["host"] = "idle" /\ ~quiet

\* eloward-rank-badges.c rank_badges_update with the "streamer_name" setting.
UpdateE ==
    /\ variant = "E"
    /\ HostIdle
    /\ \E setting \in Names :
          IF StrLen(setting) > 0
          THEN /\ global_name' = setting
               /\ IF setting # current_streamer
                  THEN CallCheck("host", setting,
                                 [LocInit EXCEPT !.name = setting, !.ret = "idle",
                                                 !.origin = "setting"])
                  ELSE UNCHANGED <<current_streamer, streamer_subscribed, pc, loc,
                                   curOutcome>>
          ELSE UNCHANGED <<global_name, current_streamer, streamer_subscribed,
                           pc, loc, curOutcome>>
    /\ UNCHANGED <<variant, plugin_data, freed, initialized, thread_running,
                   stop_event, js_code, db_reads, successful_reads, quiet, io, identity>>

\* on_scene_change, the scene-changed events: inject if subscribed.
SceneChanged ==
    /\ variant \in {"E", "P"}
    /\ HostIdle
    /\ IF plugin_data # "NULL" /\ initialized /\ streamer_subscribed
       THEN \E fileOk \in BOOLEAN : EnterInject("host", "idle", fileOk)
       ELSE UNCHANGED <<js_code, pc, loc>>
    /\ UNCHANGED <<variant, plugin_data, freed, initialized, thread_running,
                   stop_event, current_streamer, streamer_subscribed, db_reads,
                   successful_reads, global_name, curOutcome, quiet, io, identity>>

\* eloward-rank-badges.c on_scene_change, OBS_FRONTEND_EVENT_STREAMING_STARTED.
StreamingStartedE ==
    /\ variant = "E"
    /\ HostIdle
    /\ IF plugin_data # "NULL" /\ initialized
       THEN \E r \in ResolveResults :
               IF r.ok /\ r.name # current_streamer
               THEN CallCheck("host", r.name,
                              [LocInit EXCEPT !.name = r.name, !.ret = "idle",
                                              !.origin = "resolve"])
               ELSE UNCHANGED <<current_streamer, streamer_subscribed, pc, loc,
                                curOutcome>>
       ELSE UNCHANGED <<current_streamer, streamer_subscribed, pc, loc, curOutcome>>
    /\ UNCHANGED <<variant, plugin_data, freed, initialized, thread_running,
                   stop_event, js_code, db_reads, successful_reads, global_name,
                   quiet, io, identity>>

\* Mutant of SourceCreate: every source instance starts a poll thread.
SourceCreate_StartsThread ==
    /\ variant \in {"E", "P"}
    /\ HostIdle
    /\ plugin_data = "ptr"
    /\ pc' = [pc EXCEPT !["poll"] = "loop"]
    /\ UNCHANGED <<variant, plugin_data, freed, initialized, thread_running,
                   stop_event, js_code, current_streamer, streamer_subscribed,
                   db_reads, successful_reads, global_name, loc, curOutcome,
                   quiet, io, identity>>

\* The source's create callback: rank_badges_create of eloward-rank-badges.c
\* returns plugin_data, the lambda of plugin-main.c a dummy pointer.
SourceCreate ==
    /\ variant \in {"E", "P"}
    /\ HostIdle
    /\ UNCHANGED vars

\* eloward-rank-badges.c rank_badges_destroy: nothing.
DestroyE ==
    /\ variant = "E"
    /\ HostIdle
    /\ UNCHANGED vars

\* Mutant of UpdateP: no test of the pointer before the resolution.
UpdateP_NoNullTest ==
    /\ variant = "P"
    /\ HostIdle
    /\ \E r \in ResolveResults :
          IF r.ok /\ r.name # current_streamer
          THEN CallCheck("host", r.name,
                         [LocInit EXCEPT !.ref = TRUE, !.ret = "h_after",
                                         !.origin = "resolve"])
          ELSE /\ pc' = [pc EXCEPT !["host"] = "h_after"]
               /\ UNCHANGED <<current_streamer, streamer_subscribed, loc,
                              curOutcome>>
    /\ UNCHANGED <<variant, plugin_data, freed, initialized, thread_running,
                   stop_event, js_code, db_reads, successful_reads, global_name,
                   quiet, io, identity>>

\* plugin-main.c rank_badges_update up to the subscription check.
UpdateP ==
    /\ variant = "P"
    /\ HostIdle
    /\ IF plugin_data = "NULL"
       THEN UNCHANGED <<current_streamer, streamer_subscribed, pc, loc, curOutcome>>
       ELSE \E r \in ResolveResults :
               IF r.ok /\ r.name # current_streamer
               THEN CallCheck("host", r.name,
                              [LocInit EXCEPT !.ref = TRUE, !.ret = "h_after",
                                              !.origin = "resolve"])
               ELSE /\ pc' = [pc EXCEPT !["host"] = "h_after"]
                    /\ UNCHANGED <<current_streamer, streamer_subscribed, loc,
                                   curOutcome>>
    /\ UNCHANGED <<variant, plugin_data, freed, initialized, thread_running,
                   stop_event, js_code, db_reads, successful_reads, global_name,
                   quiet, io, identity>>

\* plugin-main.c on_scene_change, OBS_FRONTEND_EVENT_STREAMING_STARTED, up to
\* the subscription check: reset the counters, resolve, store the name.
StreamingStartedP ==
    /\ variant = "P"
    /\ HostIdle
    /\ IF plugin_data # "NULL" /\ initialized
       THEN /\ db_reads' = 0
            /\ successful_reads' = 0
            /\ \E r \in ResolveResults :
                  IF r.ok
                  THEN CallCheck("host", r.name,
                                 [LocInit EXCEPT !.ref = TRUE, !.ret = "h_after",
                                                 !.origin = "resolve",
                                                 !.same = (r.name = current_streamer)])
                  ELSE UNCHANGED <<current_streamer, streamer_subscribed, pc, loc,
                                   curOutcome>>
       ELSE UNCHANGED <<db_reads, successful_reads, current_streamer,
                        streamer_subscribed, pc, loc, curOutcome>>
    /\ UNCHANGED <<variant, plugin_data, freed, initialized, thread_running,
                   stop_event, js_code, global_name, quiet, io, identity>>

\* plugin-main.c, the tail of rank_badges_update and of the streaming-started
\* case: if (plugin_data->streamer_subscribed) inject_into_chat_sources();
HostAfterP ==
    /\ variant = "P"
    /\ pc["host"] = "h_after"
    /\ IF streamer_subscribed
       THEN EnterInject("host", "idle", TRUE)
       ELSE /\ pc' = [pc EXCEPT !["host"] = "idle"]
            /\ UNCHANGED <<js_code, loc>>
    /\ UNCHANGED <<variant, plugin_data, freed, initialized, thread_running,
                   stop_event, current_streamer, streamer_subscribed, db_reads,
                   successful_reads, global_name, curOutcome, quiet, io, identity>>

\* rank-badge-injector.c inject_into_chat_sources, called by its user.
InjectI ==
    /\ variant = "I"
    /\ HostIdle
    /\ \E fileOk \in BOOLEAN : EnterInject("host", "idle", fileOk)
    /\ UNCHANGED <<variant, plugin_data, freed, initialized, thread_running,
                   stop_event, current_streamer, streamer_subscribed, db_reads,
                   successful_reads, global_name, curOutcome, quiet, io, identity>>

\* rank-badge-injector.c injector_free.
FreeI ==
    /\ variant = "I"
    /\ HostIdle
    /\ js_code' = NoCode
    /\ pc' = [pc EXCEPT !["host"] = "done"]
    /\ UNCHANGED <<variant, plugin_data, freed, initialized, thread_running,
                   stop_event, current_streamer, streamer_subscribed, db_reads,
                   successful_reads, global_name, loc, curOutcome, quiet, io, identity>>

(* ----------------------- host thread: shutdown ------------------------ *)

\* eloward-rank-badges.c obs_module_unload up to pthread_join.
UnloadE ==
    /\ variant = "E"
    /\ HostIdle
    /\ thread_running' = FALSE
    /\ stop_event' = "set"
    /\ pc' = [pc EXCEPT !["host"] = "join"]
    /\ loc' = [loc EXCEPT !["host"].ret = "done"]
    /\ UNCHANGED <<variant, plugin_data, freed, initialized, js_code,
                   current_streamer, streamer_subscribed, db_reads,
                   successful_reads, global_name, curOutcome, quiet, io, identity>>

\* Mutant of DestroyP: no test of the pointer, every call signals and joins.
DestroyP_NoNullTest(after) ==
    /\ variant = "P"
    /\ HostIdle
    /\ stop_event' = "set"
    /\ pc' = [pc EXCEPT !["host"] = "join"]
    /\ loc' = [loc EXCEPT !["host"].ret = after]
    /\ UNCHANGED <<variant, plugin_data, freed, initialized, thread_running,
                   js_code, current_streamer, streamer_subscribed, db_reads,
                   successful_reads, global_name, curOutcome, quiet, io, identity>>

\* plugin-main.c rank_badges_destroy up to pthread_join, called as the
\* source's destroy callback (after = "idle") or by obs_module_unload
\* (after = "done").  With the pointer already null it does nothing.
\* Its `if (plugin_data->thread_running)` is true whenever the pointer is
\* set here: a load that did not start the thread has nulled the pointer.
DestroyP(after) ==
    /\ variant = "P"
    /\ HostIdle
    /\ IF plugin_data = "NULL"
       THEN /\ pc' = [pc EXCEPT !["host"] = after]
            /\ UNCHANGED <<stop_event, loc>>
       ELSE /\ stop_event' = "set"
            /\ pc' = [pc EXCEPT !["host"] = "join"]
            /\ loc' = [loc EXCEPT !["host"].ret = after]
    /\ UNCHANGED <<variant, plugin_data, freed, initialized, thread_running,
                   js_code, current_streamer, streamer_subscribed, db_reads,
                   successful_reads, global_name, curOutcome, quiet, io, identity>>

SourceDestroyP == DestroyP("idle")

UnloadP == DestroyP("done")

\* Mutant of JoinReturns: the state is freed without waiting for the thread.
JoinReturnsAtOnce == TRUE

\* pthread_join(poll_thread, NULL) returns: the poll thread has exited.
JoinReturns == pc["poll"] = "exited"

\* From the return of pthread_join: destroy the stop event, free the script
\* and the state, null the pointer.
Join ==
    /\ pc["host"] = "join"
    /\ JoinReturns
    /\ stop_event' = "destroyed"
    /\ js_code' = NoCode
    /\ freed' = TRUE
    /\ plugin_data' = "NULL"
    /\ pc' = [pc EXCEPT !["host"] = loc["host"].ret]
    /\ loc' = [loc EXCEPT !["host"] = LocInit]
    /\ UNCHANGED <<variant, initialized, thread_running, current_streamer,
                   streamer_subscribed, db_reads, successful_reads, global_name,
                   curOutcome, quiet, io, identity>>

(* ----------------------------- environment ---------------------------- *)

\* The user changes the stream settings, the ingest file or the environment.
IdentityChanges ==
    /\ plugin_data = "ptr"
    /\ ~quiet
    /\ identity' \in HostStates \ {identity}
    /\ UNCHANGED <<variant, plugin_data, freed, initialized, thread_running,
                   stop_event, js_code, current_streamer, streamer_subscribed,
                   db_reads, successful_reads, global_name, pc, loc, curOutcome,
                   quiet, io>>

\* From now on the host makes no callback, its streamer identity stays as it
\* is and the verify service answers {"subscribed": true}.
Quiesce ==
    /\ pc["host"] = "idle"
    /\ ~quiet
    /\ quiet' = TRUE
    /\ UNCHANGED <<variant, plugin_data, freed, initialized, thread_running,
                   stop_event, js_code, current_streamer, streamer_subscribed,
                   db_reads, successful_reads, global_name, pc, loc, curOutcome,
                   io, identity>>

(* --------------------------- specifications --------------------------- *)

PollNext ==
    \/ PollLoopE \/ PollBodyE \/ PollAfterE \/ PollWaitE
    \/ PollLoopP \/ PollBodyP \/ PollAfterP \/ PollSleepP
    \/ DbResp("poll") \/ DbStore("poll") \/ VerifyResp("poll")
    \/ InjScan("poll") \/ InjExec("poll")

HostNext ==
    \/ LoadE \/ LoadThreadE \/ LoadP \/ LoadI
    \/ SourceCreate
    \/ UpdateE \/ SceneChanged \/ StreamingStartedE \/ DestroyE
    \/ UpdateP \/ StreamingStartedP \/ HostAfterP
    \/ InjectI \/ FreeI
    \/ UnloadE \/ SourceDestroyP \/ UnloadP \/ Join
    \/ DbResp("host") \/ DbStore("host") \/ VerifyResp("host")
    \/ InjScan("host") \/ InjExec("host")

Next == PollNext \/ HostNext \/ IdentityChanges \/ Quiesce

Spec == Init /\ [][Next]_vars

\* The poll thread and the thread blocked in pthread_join are scheduled, and
\* every network call and every sleep of the poll thread returns.
FairSpec == Spec /\ WF_vars(PollNext) /\ WF_vars(Join)

(* ------------------- the HTTP helpers on one response ----------------- *)

\* One helper call on one response, for every response and counter value.
InitClient ==
    /\ variant \in {"E", "P"}
    /\ plugin_data = "ptr"
    /\ freed = FALSE
    /\ initialized = TRUE
    /\ thread_running = TRUE
    /\ stop_event = "unset"
    /\ js_code = NoCode
    /\ current_streamer = "a"
    /\ streamer_subscribed = FALSE
    /\ db_reads \in 0..MaxCount
    /\ successful_reads \in 0..MaxCount
    /\ global_name = ""
    /\ pc = [t \in Threads |-> IF t = "host" THEN "idle" ELSE "loop"]
    /\ loc = [t \in Threads |-> LocInit]
    /\ curOutcome = NoOutcome
    /\ quiet = FALSE
    /\ io \in {[NoCall EXCEPT !.resp = r] : r \in Responses}
    /\ identity = NoHost

\* check_streamer_subscription from the return of curl_easy_perform.
ClientVerify ==
    /\ io.fn = "none"
    /\ io' = [io EXCEPT !.fn = "check_streamer_subscription",
                        !.ret = ParseBool(io.resp)]
    /\ UNCHANGED <<variant, plugin_data, freed, initialized, thread_running,
                   stop_event, js_code, current_streamer, streamer_subscribed,
                   db_reads, successful_reads, global_name, pc, loc, curOutcome,
                   quiet, identity>>

\* increment_db_read_counter from the return of curl_easy_perform.
ClientDbRead ==
    /\ io.fn = "none"
    /\ db_reads' = Bump(db_reads, ParseBool(io.resp))
    /\ io' = [io EXCEPT !.fn = "increment_db_read_counter",
                        !.ret = ParseBool(io.resp),
                        !.counter = db_reads, !.after = db_reads']
    /\ UNCHANGED <<variant, plugin_data, freed, initialized, thread_running,
                   stop_event, js_code, current_streamer, streamer_subscribed,
                   successful_reads, global_name, pc, loc, curOutcome, quiet,
                   identity>>

\* increment_successful_lookup_counter from the return of curl_easy_perform.
ClientLookup ==
    /\ io.fn = "none"
    /\ successful_reads' = Bump(successful_reads, ParseBool(io.resp))
    /\ io' = [io EXCEPT !.fn = "increment_successful_lookup_counter",
                        !.ret = ParseBool(io.resp),
                        !.counter = successful_reads, !.after = successful_reads']
    /\ UNCHANGED <<variant, plugin_data, freed, initialized, thread_running,
                   stop_event, js_code, current_streamer, streamer_subscribed,
                   db_reads, global_name, pc, loc, curOutcome, quiet, identity>>

NextClient == ClientVerify \/ ClientDbRead \/ ClientLookup

SpecClient == InitClient /\ [][NextClient]_vars

(* ------------------- the resolver on one host state ------------------ *)

\* Every content of the sources get_current_streamer reads, long names
\* included.
HostInputsP ==
    [output : BOOLEAN, username : AllNames, cfg : {"none"} \cup AllNames,
     env : AllNames]

HostInputsE ==
    [output : BOOLEAN, service : AllNames, username : AllNames,
     profile : AllNames]

\* One call of get_current_streamer, for every content of its sources.
InitResolver ==
    /\ variant \in {"E", "P"}
    /\ plugin_data = "ptr"
    /\ freed = FALSE
    /\ initialized = TRUE
    /\ thread_running = TRUE
    /\ stop_event = "unset"
    /\ js_code = NoCode
    /\ current_streamer = ""
    /\ streamer_subscribed = FALSE
    /\ db_reads = 0
    /\ successful_reads = 0
    /\ global_name \in (IF variant = "E" THEN AllNames ELSE {""})
    /\ pc = [t \in Threads |-> IF t = "host" THEN "idle" ELSE "loop"]
    /\ loc = [t \in Threads |-> LocInit]
    /\ curOutcome = NoOutcome
    /\ quiet = FALSE
    /\ io = NoCall
    /\ identity \in (IF variant = "E" THEN HostInputsE ELSE HostInputsP)

\* get_current_streamer(streamer_name, sizeof(streamer_name)) of
\* eloward-rank-badges.c.
ResolverCallE ==
    /\ variant = "E"
    /\ io.fn = "none"
    /\ LET r == get_current_streamer_E(identity, global_name, NameSize)
       IN  io' = [io EXCEPT !.fn = "get_current_streamer", !.ret = r.ok,
                            !.name = r.name]
    /\ UNCHANGED <<variant, plugin_data, freed, initialized, thread_running,
                   stop_event, js_code, current_streamer, streamer_subscribed,
                   db_reads, successful_reads, global_name, pc, loc, curOutcome,
                   quiet, identity>>

\* get_current_streamer(streamer_name, sizeof(streamer_name)) of plugin-main.c.
ResolverCallP ==
    /\ variant = "P"
    /\ io.fn = "none"
    /\ LET r == get_current_streamer_P(identity, NameSize)
       IN  io' = [io EXCEPT !.fn = "get_current_streamer", !.ret = r.ok,
                            !.name = r.name]
    /\ UNCHANGED <<variant, plugin_data, freed, initialized, thread_running,
                   stop_event, js_code, current_streamer, streamer_subscribed,
                   db_reads, successful_reads, global_name, pc, loc, curOutcome,
                   quiet, identity>>

NextResolver == ResolverCallE \/ ResolverCallP

SpecResolver == InitResolver /\ [][NextResolver]_vars

(* ------------------ the injector on one script text ------------------ *)

\* The characters a script file is made of here: the three the injectors
\* treat specially and one ordinary character.
ScriptAlphabet == {BACKTICK, BACKSLASH, NEWLINE, "j"}

\* Every content of the script file up to MaxText characters.
ScriptTexts == UNION {[1..n -> ScriptAlphabet] : n \in 0..MaxText}

\* One call of inject_js_to_browser_source, for every script text, in the
\* variants that put the text into a template literal.
InitEscape ==
    /\ variant \in {"E", "I"}
    /\ plugin_data = "ptr"
    /\ freed = FALSE
    /\ initialized = TRUE
    /\ thread_running = (variant = "E")
    /\ stop_event = "unset"
    /\ js_code \in ScriptTexts
    /\ current_streamer = (IF variant = "E" THEN "a" ELSE "")
    /\ streamer_subscribed = (variant = "E")
    /\ db_reads = 0
    /\ successful_reads = 0
    /\ global_name = ""
    /\ pc = [t \in Threads |-> IF t = "host" THEN "idle" ELSE "none"]
    /\ loc = [t \in Threads |-> LocInit]
    /\ curOutcome = NoOutcome
    /\ quiet = FALSE
    /\ io = NoCall
    /\ identity = NoHost

\* inject_js_to_browser_source up to the host call: the script string is
\* built around js_code.
BuildScript ==
    /\ pc["host"] = "idle"
    /\ pc' = [pc EXCEPT !["host"] = "inj_exec"]
    /\ loc' = [loc EXCEPT !["host"].idx = 1,
                          !["host"].script = Format(current_streamer,
                                                    streamer_subscribed, js_code)]
    /\ UNCHANGED <<variant, plugin_data, freed, initialized, thread_running,
                   stop_event, js_code, current_streamer, streamer_subscribed,
                   db_reads, successful_reads, global_name, curOutcome, quiet,
                   io, identity>>

NextEscape == BuildScript

SpecEscape == InitEscape /\ [][NextEscape]_vars

(* --------------- the write callback on one transfer ------------------ *)

\* size * nmemb of one write_callback call: a short chunk, and chunks that
\* end just inside and just at the end of each buffer.
ChunkLens ==
    {1, MetricsBufferSize - 1, MetricsBufferSize, VerifyBufferSize - 1,
     VerifyBufferSize}

\* A delivery chunk with its length.
SizedChunks == [text : {"T", "x"}, len : ChunkLens]

\* sizeof(response_buffer) in the helper fn.
BufferSize(fn) ==
    IF fn = "check_streamer_subscription" THEN VerifyBufferSize
    ELSE MetricsBufferSize

\* One transfer into the response buffer of one helper, for every split of
\* a body into up to MaxChunks chunks.
InitWrite ==
    /\ variant \in {"E", "P"}
    /\ plugin_data = "ptr"
    /\ freed = FALSE
    /\ initialized = TRUE
    /\ thread_running = TRUE
    /\ stop_event = "unset"
    /\ js_code = NoCode
    /\ current_streamer = "a"
    /\ streamer_subscribed = FALSE
    /\ db_reads = 0
    /\ successful_reads = 0
    /\ global_name = ""
    /\ pc = [t \in Threads |-> IF t = "host" THEN "idle" ELSE "loop"]
    /\ loc = [t \in Threads |-> LocInit]
    /\ curOutcome = NoOutcome
    /\ quiet = FALSE
    /\ io \in {[NoCall EXCEPT !.fn = f, !.size = BufferSize(f),
                              !.resp = [res |-> "ok", chunks |-> c]] :
                 f \in {"increment_db_read_counter", "check_streamer_subscription"},
                 c \in SeqsUpTo(SizedChunks, MaxChunks)}
    /\ identity = NoHost

\* One call of write_callback by curl_easy_perform: strncpy writes realsize
\* bytes from mem[0] on and mem[realsize] = 0 one more.
WriteChunk ==
    /\ io.sent < Len(io.resp.chunks)
    /\ LET contents == io.resp.chunks[io.sent + 1]
       IN  io' = [io EXCEPT !.buf = write_callback(io.buf, contents),
                            !.span = contents.len + 1,
                            !.sent = io.sent + 1]
    /\ UNCHANGED <<variant, plugin_data, freed, initialized, thread_running,
                   stop_event, js_code, current_streamer, streamer_subscribed,
                   db_reads, successful_reads, global_name, pc, loc, curOutcome,
                   quiet, identity>>

NextWrite == WriteChunk

SpecWrite == InitWrite /\ [][NextWrite]_vars

(* ------------------------------- claims ------------------------------- *)

\* A subscription check (its db_read or its verify request) is in flight.
CheckInFlight == \E t \in Threads : pc[t] \in {"chk_db", "chk_inc", "chk_ver"}

\* C1: whenever no subscription check is in flight, the subscribed flag
\* equals the outcome of the most recent completed check that was made for
\* the name now cached as current streamer.
C1_FlagIsLatestOutcome ==
    (~CheckInFlight /\ curOutcome.val # "none")
        => (streamer_subscribed <=> (curOutcome.val = "true"))

\* C2: the host call that executes the script in a browser source is never
\* invoked while the subscribed flag is false.  Stated for the two variants
\* that keep the flag; rank-badge-injector.c keeps none and tests none.
C2_ExecuteOnlyWhenSubscribed ==
    \A t \in Threads :
        (variant \in {"E", "P"} /\ pc[t] = "inj_exec") => streamer_subscribed

\* C3: a resolution that yields the name already cached issues no
\* subscription verify request.
C3_NoCheckForUnchangedName ==
    \A t \in Threads :
        (pc[t] = "chk_ver" /\ loc[t].origin = "resolve") => ~loc[t].same

\* C4: no HTTP request is issued while the streamer name handed to the
\* client is empty.
C4_NoRequestForEmptyName ==
    \A t \in Threads : loc[t].req.ep # "none" => loc[t].req.name # ""

\* The response is one that must count as false: the transport failed, the
\* body is not valid JSON, or the JSON has no boolean field.
BadResponse(r) ==
    \/ r.res = "fail"
    \/ json_loads(BodyText(r)) \notin {"T", "F"}

\* C5: each HTTP helper returns false, and leaves its counter unchanged,
\* whenever the transport fails, the response body is not valid JSON or the
\* JSON has no boolean subscribed / success field.
C5_BadResponseIsFalse ==
    (io.fn # "none" /\ BadResponse(io.resp))
        => (io.ret = FALSE /\ io.after = io.counter)

\* C6: every script submitted by the host execute call contains the
\* streamer name exactly as it is cached at that moment and both API URLs.
C6_ScriptHasNameAndUrls ==
    \A t \in Threads :
        pc[t] = "inj_exec"
            => /\ loc[t].script.attached
               /\ loc[t].script.cfg
               /\ loc[t].script.streamerName = current_streamer
               /\ loc[t].script.rank = RANK_API_URL
               /\ loc[t].script.subscription = SUBSCRIPTION_API_URL

\* Steps of the poll thread: it starts a subscription check, it starts an
\* injection pass, it comes back from a whole sleep interval.
PollStartsCheck == pc["poll"] \notin {"chk_db", "chk_inc", "chk_ver"} /\ pc'["poll"] = "chk_db"

PollStartsInject == pc["poll"] \notin {"inj_scan", "inj_exec"} /\ pc'["poll"] = "inj_scan"

PollEndsSleep == pc["poll"] \in {"wait", "sleep"} /\ pc'["poll"] = "loop"

\* C7: once the stop signal is raised the poll thread starts no new
\* subscription check or injection and completes no full sleep interval
\* before it exits.
C7_StopsWithinOneInterval ==
    [][stop_event = "set" => ~(PollStartsCheck \/ PollStartsInject \/ PollEndsSleep)]_vars

\* C8: the plugin state is freed only after the poll thread has exited, so
\* the poll thread never touches freed state.
C8_FreedOnlyAfterPollExit == freed => pc["poll"] \in {"none", "exited"}

\* C8 witness: a shutdown that freed the state of a module whose poll
\* thread had run.
C8_Witness == freed /\ plugin_data = "NULL" /\ pc["poll"] = "exited"

RetryDue ==
    /\ quiet
    /\ plugin_data = "ptr"
    /\ pc["poll"] \notin {"none", "exited"}
    /\ current_streamer # ""
    /\ curOutcome.val = "error"
    /\ curOutcome.by = "poll"
    /\ \A r \in ResolveResults : r.ok => r.name = current_streamer
    /\ ~streamer_subscribed

\* C10: a subscription check that failed is retried by a later poll cycle,
\* so the subscribed flag eventually becomes true.
C10_FailedCheckRetried == RetryDue ~> streamer_subscribed

\* The poll thread goes from its resolve/check step to its sleep without
\* calling inject_into_chat_sources: the resolver failed, the cached name is
\* empty, or the test that guards the call was false.
PollSkipsInjector ==
    \/ pc["poll"] = "e_body" /\ pc'["poll"] = "wait"
    \/ pc["poll"] = "e_after" /\ pc'["poll"] = "wait" /\ ~streamer_subscribed
    \/ pc["poll"] = "p_body" /\ pc'["poll"] = "sleep"
    \/ /\ pc["poll"] = "p_after" /\ pc'["poll"] = "sleep"
       /\ ~(loc["poll"].was # streamer_subscribed /\ streamer_subscribed)

\* C11: a poll iteration whose resolve/check step ends with the subscribed
\* flag true calls the injector before the iteration's sleep.
C11_SubscribedIterationInjects ==
    [][PollSkipsInjector => ~streamer_subscribed']_vars

\* The poll thread is running its loop.
PollRunning == plugin_data = "ptr" /\ pc["poll"] \notin {"none", "exited"}

\* C12: each poll iteration re-resolves the streamer, so with the host
\* silent a streamer identity that the resolver reports reaches the cached
\* name.
C12_IdentityReachesCache ==
    \A n \in Names :
        (quiet /\ PollRunning /\ ResolveResults = {Resolved(n)})
            ~> (current_streamer = n)

\* The sources of the name in their priority order, an absent one as empty.
SourcesInOrder ==
    IF variant = "E"
    THEN << IF identity.output THEN identity.service ELSE "",
            IF identity.output THEN identity.username ELSE "",
            identity.profile, global_name >>
    ELSE << IF identity.output THEN identity.username ELSE "",
            IF identity.cfg = "none" THEN "" ELSE identity.cfg,
            identity.env >>

\* The reference: the first non-empty value, "" when there is none.
RECURSIVE FirstNonEmpty(_)
FirstNonEmpty(seq) ==
    IF seq = <<>> THEN ""
    ELSE IF Head(seq) # "" THEN Head(seq)
    ELSE FirstNonEmpty(Tail(seq))

\* C13: get_current_streamer returns success with exactly the value of the
\* highest-priority non-empty source, never success with an empty name,
\* and failure if and only if every source is empty.
C13_ResolverIsFirstNonEmpty ==
    io.fn = "get_current_streamer"
        => /\ io.ret <=> FirstNonEmpty(SourcesInOrder) # ""
           /\ io.ret => io.name = FirstNonEmpty(SourcesInOrder)

\* get_current_streamer returns false now.
ResolverFails == \A r \in ResolveResults : ~r.ok

\* A step of a caller of get_current_streamer, from the call on.
ResolverCallerStep ==
    PollBodyE \/ LoadE \/ StreamingStartedE \/ UpdateP \/ StreamingStartedP

\* C14: when get_current_streamer fails its caller leaves the cached name
\* and the subscribed flag as they are and sends no request.
C14_ResolverMissChangesNothing ==
    [][(ResolverFails /\ ResolverCallerStep)
          => /\ UNCHANGED <<current_streamer, streamer_subscribed>>
             /\ \A t \in Threads : loc'[t].req = loc[t].req]_vars

\* C14 witness: module load of eloward-rank-badges.c went past a failed
\* resolution: nothing cached, nothing sent, the thread about to start.
C14_Witness ==
    /\ variant = "E"
    /\ pc["host"] = "load_thread"
    /\ current_streamer = ""
    /\ ~streamer_subscribed
    /\ db_reads = 0
    /\ curOutcome = NoOutcome

\* Module load returns, every step of it having worked except, possibly,
\* reading the script file.
LoadReturns ==
    \/ \E fileOk \in BOOLEAN : LoadStepsP(fileOk, TRUE, TRUE)
    \/ LoadThreadE

\* C15: no failure is fatal: whatever failed during it, module load leaves
\* the plugin state allocated and the poll loop running.
C15_LoadSurvivesFailures ==
    [][LoadReturns
          => (plugin_data' = "ptr" /\ thread_running' /\ pc'["poll"] = "loop")]_vars

\* A step that puts the poll thread at the head of its loop from anywhere
\* but the loop's own sleep: a thread is created.
PollThreadStarts ==
    pc["poll"] \notin {"loop", "wait", "sleep"} /\ pc'["poll"] = "loop"

\* C16: the poll task goes from idle to polling to stopped only: the thread
\* is started by module load and by nothing else, never while one exists
\* or after one has stopped, and a stopped thread does nothing more.
C16_PollTaskLifecycle ==
    [][/\ PollThreadStarts => (pc["poll"] = "none" /\ (LoadP \/ LoadThreadE))
       /\ pc["poll"] = "exited"
             => (pc'["poll"] = "exited" /\ loc'["poll"] = loc["poll"])]_vars

\* C16 witness: the poll thread has stopped and the host goes on calling
\* the module.
C16_Witness ==
    /\ pc["poll"] = "exited"
    /\ pc["host"] = "idle"
    /\ ~quiet

\* Module load has succeeded and module unload has not been called.
BetweenLoadAndUnload ==
    /\ initialized
    /\ pc["host"] # "done"
    /\ ~(pc["host"] = "join" /\ loc["host"].ret = "done")

\* C17: from a successful module load until module unload the state struct
\* is allocated and the poll thread is running.
C17_StateLivesUntilUnload ==
    BetweenLoadAndUnload => (plugin_data = "ptr" /\ ~freed /\ PollRunning)

\* A string holds one of the substrings by which the injectors recognise a
\* chat overlay.
ChatRelated(str) ==
    \/ strstr(str, s_chat) \/ strstr(str, s_Chat)
    \/ strstr(str, s_twitch) \/ strstr(str, s_Twitch)
    \/ strstr(str, s_twitch_tv) \/ strstr(str, s_twitch_chat)
    \/ strstr(str, s_streamelements)

\* A source of the active scene of the browser type whose name or URL is
\* chat related.
ChatSource(src) ==
    /\ src.active
    /\ src.id = "browser_source"
    /\ (ChatRelated(src.name) \/ ChatRelated(src.url))

\* C18: a pass runs the host execute call on every active browser source
\* whose name or URL is chat related, and on no other source: each source the
\* enumeration steps over is none of them, each source it stops at is one.
C18_ExecutesOnExactlyChatSources ==
    [][\A t \in Threads :
         (pc[t] = "inj_scan" /\ pc'[t] # "inj_scan")
             => LET last == IF pc'[t] = "inj_exec" THEN loc'[t].idx - 1
                            ELSE Len(Sources)
                IN  /\ \A j \in loc[t].idx..last : ~ChatSource(Sources[j])
                    /\ pc'[t] = "inj_exec" => ChatSource(Sources[loc'[t].idx])]_vars

\* A request to the endpoint ep for the name n is in flight.
InFlight(ep, n) == \E t \in Threads : loc[t].req = Request(ep, n)

\* C19: a name that a verify request is ever sent for also gets a db_read
\* request and a successful_lookup request.
C19_CheckFiresBothMetrics ==
    \A n \in AllNames \cup {CutName} :
        <>InFlight("verify", n)
            => (<>InFlight("db_read", n) /\ <>InFlight("successful_lookup", n))

\* C20: whenever a script that defines the configuration object is about
\* to be submitted by the host execute call, its isSubscribed value is the
\* value of the subscribed flag.
C20_ScriptFlagIsCurrent ==
    \A t \in Threads :
        (pc[t] = "inj_exec" /\ loc[t].script.cfg)
            => loc[t].script.isSubscribed = streamer_subscribed

\* The number of backticks of a template literal's text that no backslash
\* escapes; a backslash takes the character after it.
RECURSIVE BareTicks(_)
BareTicks(str) ==
    IF str = <<>> THEN 0
    ELSE IF Head(str) = BACKSLASH
         THEN (IF Len(str) >= 2 THEN BareTicks(Tail(Tail(str))) ELSE 0)
         ELSE (IF Head(str) = BACKTICK THEN 1 ELSE 0) + BareTicks(Tail(str))

\* The text a template literal with the content str evaluates to.
RECURSIVE Unescape(_)
Unescape(str) ==
    IF str = <<>> THEN <<>>
    ELSE IF Head(str) = BACKSLASH /\ Len(str) >= 2
         THEN <<IF str[2] = "n" THEN NEWLINE ELSE str[2]>> \o Unescape(Tail(Tail(str)))
         ELSE <<Head(str)>> \o Unescape(Tail(str))

\* C21: in a script that wraps the body in a template literal, the body has
\* no unescaped backtick and no raw newline, the wrapper's closing backtick
\* is the one unescaped backtick after the opening one, and the literal
\* evaluates to the script text.
C21_BodyIsEscaped ==
    \A t \in Threads :
        (pc[t] = "inj_exec" /\ loc[t].script.wrapped)
            => LET body == loc[t].script.body
               IN  /\ BareTicks(body) = 0
                   /\ BareTicks(Append(body, BACKTICK)) = 1
                   /\ \A i \in 1..Len(body) : body[i] # NEWLINE
                   /\ Unescape(body) = js_code

\* A thread stores the counter: the end of `plugin_data->db_reads++`.
CounterStored == \E t \in Threads : pc[t] = "chk_inc" /\ pc'[t] # "chk_inc"

\* C22: db_reads counts the db_read responses with success=true: the store
\* that follows such a response leaves the counter one above the value it
\* had, and nothing else changes the counter but the reset to 0 of
\* plugin-main.c's streaming-started event.
C22_CounterCountsSuccesses ==
    [][/\ CounterStored => db_reads' = db_reads + 1
       /\ db_reads' # db_reads
            => (CounterStored \/ (StreamingStartedP /\ db_reads' = 0))]_vars

\* C23: no call of write_callback writes past the end of the response
\* buffer, and after the last chunk the buffer holds every chunk of the body
\* in order.
C23_WriteStaysInBuffer ==
    io.sent > 0
        => /\ io.span <= io.size
           /\ io.sent = Len(io.resp.chunks) => io.buf = BodyText(io.resp)

\* C24: in plugin-main.c a destroy call that finds the state gone changes
\* nothing, and the join with the release of the event, the script and the
\* state happens only while the state is still allocated: at most once.
C24_DestroyIsIdempotent ==
    [][/\ ((SourceDestroyP \/ UnloadP) /\ freed)
            => /\ UNCHANGED <<plugin_data, freed, initialized, thread_running,
                              stop_event, js_code, current_streamer,
                              streamer_subscribed, db_reads, successful_reads,
                              loc>>
               /\ pc'["poll"] = pc["poll"]
       /\ (variant = "P" /\ Join)
            => (~freed /\ plugin_data = "ptr" /\ stop_event = "set"
                /\ pc["poll"] = "exited")]_vars

\* C24 witness: a source's destroy callback has stopped and joined the poll
\* thread and freed the state, and the module is still loaded, so that
\* further destroy calls and the unload follow.
C24_Witness ==
    /\ variant = "P"
    /\ pc["host"] = "idle"
    /\ pc["poll"] = "exited"
    /\ freed
    /\ plugin_data = "NULL"
    /\ stop_event = "destroyed"

\* obs_module_load of plugin-main.c has returned false.
LoadFailedP == variant = "P" /\ pc["host"] # "unloaded" /\ ~initialized

\* C25: after a failed load of plugin-main.c the state pointer is null and
\* no poll thread exists, and no callback or event gets past its entry
\* test: no request is in flight, no injection pass runs and no code that
\* reads the state is reached.
C25_FailedLoadIsInert ==
    LoadFailedP
        => /\ plugin_data = "NULL"
           /\ ~thread_running
           /\ pc["poll"] = "none"
           /\ pc["host"] \in {"idle", "done"}
           /\ \A t \in Threads : loc[t].req = NoReq

\* C25 witness: the load failed at pthread_create, after the stop event was
\* created and the source type registered, and the module was unloaded
\* later.
C25_Witness ==
    /\ LoadFailedP
    /\ stop_event = "destroyed"
    /\ pc["host"] = "done"

\* In eloward-rank-badges.c the cached name is the non-empty streamer_name
\* setting: the state rank_badges_update leaves when called with it.
SettingCached ==
    variant = "E" /\ global_name # "" /\ current_streamer = global_name

\* C26: in eloward-rank-badges.c, while the cached name is the
\* streamer_name setting, no step of the poll thread and no
\* streaming-started event stores another name or starts a check for
\* another name.
C26_SettingStaysCached ==
    [][(SettingCached /\ (PollNext \/ StreamingStartedE))
          => /\ current_streamer' = current_streamer
             /\ \A t \in Threads :
                   (loc[t].req = NoReq /\ loc'[t].req # NoReq)
                       => loc'[t].req.name = global_name]_vars

====
